---- MODULE Spec2Model ----
(***************************************************************************)
(* A model of the point_world renderer: RenderInstance::new (device        *)
(* selection, swapchain format, RenderContext::new), Renderer::render and  *)
(* the App event handler that drives it.                                   *)
(*                                                                         *)
(* Rust indices are 0-based; sequences here are 1-based, so v[i] of the    *)
(* source is At(v, i).  Option<T> is a record with a `some` flag.          *)
(***************************************************************************)
EXTENDS Integers, Sequences, FiniteSets, TLC

\* ------------------------------------------------------------------ bounds
MaxDevices == 2
MaxImages == 2
MaxFormats == 2
MaxCalls == 4

\* ------------------------------------------------------------- Option<T>
None == [some |-> FALSE]
Some(v) == [some |-> TRUE, val |-> v]

At(v, i) == v[i + 1]
InBounds(v, i) == i >= 0 /\ i < Len(v)

\* sequences over S of length lo..hi
SeqsOf(S, lo, hi) == UNION {[1..n -> S] : n \in lo..hi}

\* ------------------------------------------------- what the driver reports
\* A queue family: its GRAPHICS flag and the Result of surface_support.  The
\* code queries surface_support only for families with GRAPHICS (&& does not
\* evaluate its right side otherwise), so one family without GRAPHICS is
\* enough: the one that could present.
QueueFamilyKinds ==
    { [graphics |-> TRUE, surface_support |-> s] :
        s \in {"Ok(true)", "Ok(false)", "Err"} }
    \cup { [graphics |-> FALSE, surface_support |-> "Ok(true)"] }

\* The queue families of one device: none, one or two.
FamilyLists ==
    {<<>>} \cup {<<a>> : a \in QueueFamilyKinds}
           \cup {<<a, b>> : a \in QueueFamilyKinds, b \in QueueFamilyKinds}

ExtensionNames == {"khr_swapchain"}

PhysicalDevices ==
    { [supported_extensions |-> e, queue_family_properties |-> f] :
        e \in SUBSET ExtensionNames, f \in FamilyLists }

Formats == {"B8G8R8A8_SRGB", "R8G8B8A8_UNORM", "B8G8R8A8_UNORM"}

\* ------------------------------------------------------------------ state
VARIABLES
    \* the environment: what the driver will report during setup
    phys,               \* enumerate_physical_devices(), in enumeration order
    surface_formats,    \* physical_device.surface_formats(..)
    swap_images,        \* the image handles Swapchain::new returns
    \* RenderInstance::new
    stage,              \* position in RenderInstance::new / App state
    panic,              \* "none", or the message of the panic that ended the process
    physical_device,    \* Option<index into phys> (0-based)
    queue_family_index, \* Option<u32>
    device,             \* Option<Device>
    queue,              \* Option<Queue>
    image_format,       \* Option<Format>
    rcx,                \* Option<RenderContext>
    previous_frame_end, \* Option<Box<dyn GpuFuture>>
    next_id,            \* identity of the next GpuFuture created
    \* Renderer::render
    pc,                 \* position in render(); "idle" between calls
    image_index,        \* local of render()
    command_buffer,     \* local of render(): Option<command buffer>
    previous,           \* local of render(): Option<GpuFuture> moved out of previous_frame_end
    future,             \* local of render(): Option<Result of then_signal_fence_and_flush>
    calls,              \* one record per render() call begun
    submitted,          \* command buffers handed to the queue, in order
    presented,          \* present requests handed to the queue, in order
    exiting             \* event_loop.exit() was called

envVars == <<phys, surface_formats, swap_images>>
setupVars == <<stage, panic, physical_device, queue_family_index, device, queue,
               image_format, rcx>>
renderVars == <<pc, image_index, command_buffer, previous, future, calls,
                submitted, presented>>
vars == <<envVars, setupVars, previous_frame_end, next_id, renderVars, exiting>>

\* ------------------------------------------------- RenderInstance::new
\* DeviceExtensions { khr_swapchain: true, ..empty() }
device_extensions == {"khr_swapchain"}

\* p.supported_extensions().contains(&device_extensions)
SupportsExtensions(p) == device_extensions \subseteq p.supported_extensions

\* unwrap_or(true) in place of unwrap_or(false)
SurfaceSupportOrTrue(q) == q.surface_support # "Ok(false)"

\* p.surface_support(i, &surface).unwrap_or(false)
SurfaceSupportOrFalse(q) == q.surface_support = "Ok(true)"

\* q.queue_flags.contains(GRAPHICS) && p.surface_support(i, &surface).unwrap_or(false)
GraphicsAndPresent(q) == q.graphics /\ SurfaceSupportOrFalse(q)

\* .any(|(i, q)| ...) over the device's queue families
AnyGraphicsAndPresent(p) ==
    \E i \in 1..Len(p.queue_family_properties) :
        GraphicsAndPresent(p.queue_family_properties[i])

\* a selection that forgets the extension filter
FindPhysicalDeviceNoFilter(ds) ==
    LET ok == { i \in 1..Len(ds) : AnyGraphicsAndPresent(ds[i]) }
    IN  IF ok = {} THEN None
        ELSE Some((CHOOSE i \in ok : \A j \in ok : i <= j) - 1)

\* .filter(extensions).find(any family): Option<0-based index of the first match>
FindPhysicalDevice(ds) ==
    LET ok == { i \in 1..Len(ds) :
                  SupportsExtensions(ds[i]) /\ AnyGraphicsAndPresent(ds[i]) }
    IN  IF ok = {} THEN None
        ELSE Some((CHOOSE i \in ok : \A j \in ok : i <= j) - 1)

\* the last matching family instead of the first
PositionGraphicsAndPresentLast(p) ==
    LET ok == { i \in 1..Len(p.queue_family_properties) :
                  GraphicsAndPresent(p.queue_family_properties[i]) }
    IN  IF ok = {} THEN None
        ELSE Some((CHOOSE i \in ok : \A j \in ok : i >= j) - 1)

\* .iter().enumerate().position(..): Option<0-based index of the first match>
PositionGraphicsAndPresent(p) ==
    LET ok == { i \in 1..Len(p.queue_family_properties) :
                  GraphicsAndPresent(p.queue_family_properties[i]) }
    IN  IF ok = {} THEN None
        ELSE Some((CHOOSE i \in ok : \A j \in ok : i <= j) - 1)


\* the first reported format, without looking for B8G8R8A8_SRGB
SelectImageFormatFirst(formats) ==
    IF Len(formats) = 0 THEN None ELSE Some(At(formats, 0))

\* .find(|(f, _)| *f == B8G8R8A8_SRGB).unwrap_or(formats[0]); formats[0] is
\* evaluated first, so an empty list panics.  The colour space of each pair is
\* dropped by the code and is not modelled.
SelectImageFormat(formats) ==
    IF Len(formats) = 0 THEN None
    ELSE IF \E i \in 1..Len(formats) : formats[i] = "B8G8R8A8_SRGB"
         THEN Some("B8G8R8A8_SRGB")
         ELSE Some(At(formats, 0))

\* ------------------------------------------------- RenderContext::new
\* views for every image but the last
ImageViewsSkipLast(images) == [i \in 1..(Len(images) - 1) |-> [image |-> images[i]]]

\* images.iter().map(|img| ImageView::new_default(img.clone()))
ImageViews(images) == [i \in 1..Len(images) |-> [image |-> images[i]]]

\* single_pass_renderpass!(.. format: swapchain_format, load_op: Clear, store_op: Store ..)
RenderPassFor(swapchain) ==
    [format |-> swapchain.image_format, load_op |-> "Clear", store_op |-> "Store"]

\* framebuffers built over the views in reverse order
FrameBuffersReversed(render_pass, image_views) ==
    [i \in 1..Len(image_views) |->
        [render_pass |-> render_pass,
         attachments |-> <<image_views[Len(image_views) + 1 - i]>>]]

\* framebuffers built for every view but the first
FrameBuffersSkipFirst(render_pass, image_views) ==
    [i \in 1..(Len(image_views) - 1) |->
        [render_pass |-> render_pass, attachments |-> <<image_views[i + 1]>>]]

\* image_views.iter().map(|view| Framebuffer::new(render_pass, attachments: vec![view]))
FrameBuffers(render_pass, image_views) ==
    [i \in 1..Len(image_views) |->
        [render_pass |-> render_pass, attachments |-> <<image_views[i]>>]]

RenderContextNew(dev, create_info, images) ==
    LET swapchain   == [device |-> dev,
                        image_format |-> create_info.image_format,
                        present_mode |-> create_info.present_mode,
                        images |-> images]
        image_views == ImageViews(images)
        render_pass == RenderPassFor(swapchain)
    IN  [swapchain |-> swapchain,
         image_views |-> image_views,
         render_pass |-> render_pass,
         frame_buffers |-> FrameBuffers(render_pass, image_views)]

\* vulkano::sync::now(device).boxed()
Now(dev, id) == [kind |-> "now", id |-> id, device |-> dev]

\* ------------------------------------------------------------ initial state
\* Nothing is constructed yet (App::default()); the environment is fixed.
InitWith(PhysLists, FormatLists, ImageLists) ==
    /\ phys \in PhysLists
    /\ surface_formats \in FormatLists
    /\ swap_images \in ImageLists
    /\ stage = "start"
    /\ panic = "none"
    /\ physical_device = None
    /\ queue_family_index = None
    /\ device = None
    /\ queue = None
    /\ image_format = None
    /\ rcx = None
    /\ previous_frame_end = None
    /\ next_id = 1
    /\ pc = "idle"
    /\ image_index = None
    /\ command_buffer = None
    /\ previous = None
    /\ future = None
    /\ calls = <<>>
    /\ submitted = <<>>
    /\ presented = <<>>
    /\ exiting = FALSE

\* ------------------------------------------------ actions: RenderInstance::new
Panic(msg) == panic' = msg

\* VulkanLibrary::new, Instance::new, Surface::from_window (each unwrapped)
CreateInstance ==
    /\ panic = "none" /\ stage = "start"
    /\ \E ok \in BOOLEAN :
         IF ok THEN stage' = "instance" /\ UNCHANGED panic
               ELSE Panic("called unwrap on Err: instance") /\ UNCHANGED stage
    /\ UNCHANGED <<envVars, physical_device, queue_family_index, device, queue,
                   image_format, rcx, previous_frame_end, next_id, renderVars, exiting>>

SelectPhysicalDevice ==
    /\ panic = "none" /\ stage = "instance"
    /\ LET found == FindPhysicalDevice(phys)
       IN  IF found.some
           THEN physical_device' = found /\ stage' = "physical" /\ UNCHANGED panic
           ELSE Panic("No suitable physical device found")
                /\ UNCHANGED <<physical_device, stage>>
    /\ UNCHANGED <<envVars, queue_family_index, device, queue,
                   image_format, rcx, previous_frame_end, next_id, renderVars, exiting>>

SelectQueueFamily ==
    /\ panic = "none" /\ stage = "physical"
    /\ LET found == PositionGraphicsAndPresent(At(phys, physical_device.val))
       IN  IF found.some
           THEN queue_family_index' = found /\ stage' = "family" /\ UNCHANGED panic
           ELSE Panic("No graphics+present queue family found")
                /\ UNCHANGED <<queue_family_index, stage>>
    /\ UNCHANGED <<envVars, physical_device, device, queue,
                   image_format, rcx, previous_frame_end, next_id, renderVars, exiting>>

\* Device::new(..).expect(..); queues.next().expect(..)
CreateDevice ==
    /\ panic = "none" /\ stage = "family"
    /\ \E ok \in BOOLEAN :
         IF ok
         THEN /\ device' = Some([physical_device |-> physical_device.val,
                                 enabled_extensions |-> device_extensions,
                                 queue_family_index |-> queue_family_index.val])
              /\ queue' = Some([queue_family_index |-> queue_family_index.val])
              /\ stage' = "device"
              /\ UNCHANGED panic
         ELSE Panic("Failed to create logical device")
              /\ UNCHANGED <<device, queue, stage>>
    /\ UNCHANGED <<envVars, physical_device, queue_family_index,
                   image_format, rcx, previous_frame_end, next_id, renderVars, exiting>>

SelectFormat ==
    /\ panic = "none" /\ stage = "device"
    /\ LET chosen == SelectImageFormat(surface_formats)
       IN  IF chosen.some
           THEN image_format' = chosen /\ stage' = "format" /\ UNCHANGED panic
           ELSE Panic("index out of bounds: formats[0]")
                /\ UNCHANGED <<image_format, stage>>
    /\ UNCHANGED <<envVars, physical_device, queue_family_index, device, queue,
                   rcx, previous_frame_end, next_id, renderVars, exiting>>

\* what can fail (and is unwrapped) between the format and the finished instance
ContextFailures == {"Swapchain::new", "ImageView::new_default",
                    "single_pass_renderpass", "Framebuffer::new"}

\* an instance returned with its context still to be filled in
BuildRenderInstanceWithoutContext ==
    /\ panic = "none" /\ stage = "format"
    /\ \E outcome \in {"ok"} \cup ContextFailures :
         IF outcome = "ok"
         THEN /\ rcx' = None
              /\ previous_frame_end' = Some(Now(device.val, next_id))
              /\ next_id' = next_id + 1
              /\ stage' = "ready"
              /\ UNCHANGED panic
         ELSE Panic(outcome)
              /\ UNCHANGED <<rcx, previous_frame_end, next_id, stage>>
    /\ UNCHANGED <<envVars, physical_device, queue_family_index, device, queue,
                   image_format, renderVars, exiting>>

\* SwapchainCreateInfo, RenderContext::new, the allocator and the first
\* previous_frame_end; returns the RenderInstance.
BuildRenderInstance ==
    /\ panic = "none" /\ stage = "format"
    /\ \E outcome \in {"ok"} \cup ContextFailures :
         IF outcome = "ok"
         THEN /\ rcx' = Some(RenderContextNew(
                            device.val,
                            [image_format |-> image_format.val, present_mode |-> "Fifo"],
                            swap_images))
              /\ previous_frame_end' = Some(Now(device.val, next_id))
              /\ next_id' = next_id + 1
              /\ stage' = "ready"
              /\ UNCHANGED panic
         ELSE Panic(outcome)
              /\ UNCHANGED <<rcx, previous_frame_end, next_id, stage>>
    /\ UNCHANGED <<envVars, physical_device, queue_family_index, device, queue,
                   image_format, renderVars, exiting>>

NextSetup ==
    \/ CreateInstance
    \/ SelectPhysicalDevice
    \/ SelectQueueFamily
    \/ CreateDevice
    \/ SelectFormat
    \/ BuildRenderInstance


\* ------------------------------------------------------ Renderer::render
\* The record kept for a render() call that has just begun.
NewCall(entry) ==
    [acquire |-> "pending", index |-> None, joined |-> None, flush |-> "none",
     entry |-> entry, exit |-> None, returned |-> FALSE]

ThisCall == Len(calls)

\* a return that leaves the acquired index and the command buffer behind
ReturnKeepsLocals(call, stored) ==
    /\ pc' = "idle"
    /\ UNCHANGED <<image_index, command_buffer>>
    /\ previous' = None
    /\ future' = None
    /\ calls' = [calls EXCEPT ![ThisCall] =
                    [call EXCEPT !.exit = stored, !.returned = TRUE]]

\* render() returns: its locals are dropped and the caller goes on.
Return(call, stored) ==
    /\ pc' = "idle"
    /\ image_index' = None
    /\ command_buffer' = None
    /\ previous' = None
    /\ future' = None
    /\ calls' = [calls EXCEPT ![ThisCall] =
                    [call EXCEPT !.exit = stored, !.returned = TRUE]]

\* App::window_event, RedrawRequested: `if let Some(renderer)`, then render()
\* up to `inst.rcx.as_ref().expect(..)`.
RedrawRequested ==
    /\ panic = "none" /\ stage = "ready" /\ ~exiting
    /\ pc = "idle"
    /\ Len(calls) < MaxCalls
    /\ IF rcx.some
       THEN /\ pc' = "cleanup"
            /\ calls' = Append(calls, NewCall(previous_frame_end))
            /\ UNCHANGED panic
       ELSE Panic("RenderContext not initialized") /\ UNCHANGED <<pc, calls>>
    /\ UNCHANGED <<envVars, stage, physical_device, queue_family_index, device, queue,
                   image_format, rcx, previous_frame_end, next_id, image_index,
                   command_buffer, previous, future, submitted, presented, exiting>>

\* 1) if let Some(fut) = previous_frame_end.as_mut() { fut.cleanup_finished() }
\* The future stays where it is; releasing finished GPU resources changes
\* nothing the host code reads.
Cleanup ==
    /\ panic = "none" /\ pc = "cleanup"
    /\ pc' = "acquire"
    /\ UNCHANGED <<envVars, setupVars, previous_frame_end, next_id, image_index,
                   command_buffer, previous, future, calls, submitted, presented,
                   exiting>>

\* What acquire_next_image(swapchain, None) can answer: an image of the
\* swapchain (the driver picks which), OutOfDate, or another error.
AcquireResults(swapchain) ==
    { [kind |-> "ok", index |-> i] : i \in 0..(Len(swapchain.images) - 1) }
        \cup { [kind |-> "ood", index |-> 0], [kind |-> "err", index |-> 0] }

\* OutOfDate treated like a successful acquire
AcquireArmProceedsOutOfDate(kind) ==
    CASE kind = "ok"  -> "proceed"
      [] kind = "ood" -> "proceed"
      [] kind = "err" -> "panic"

\* OutOfDate treated like any other acquire error
AcquireArmPanicsOutOfDate(kind) ==
    CASE kind = "ok"  -> "proceed"
      [] kind = "ood" -> "panic"
      [] kind = "err" -> "panic"

\* The arms of the match on acquire's result: Ok(r) => r,
\* Err(OutOfDate) => return, Err(e) => panic!(..)
AcquireArm(kind) ==
    CASE kind = "ok"  -> "proceed"
      [] kind = "ood" -> "return"
      [] kind = "err" -> "panic"

\* 2) match swapchain::acquire_next_image(..)
Acquire ==
    /\ panic = "none" /\ pc = "acquire"
    /\ \E r \in AcquireResults(rcx.val.swapchain) :
         CASE AcquireArm(r.kind) = "proceed" ->
                /\ image_index' = Some(r.index)
                /\ pc' = "record"
                /\ calls' = [calls EXCEPT ![ThisCall].acquire = r.kind,
                                          ![ThisCall].index = Some(r.index)]
                /\ UNCHANGED <<panic, command_buffer, previous, future>>
           [] AcquireArm(r.kind) = "return" ->
                /\ Return([calls[ThisCall] EXCEPT !.acquire = r.kind],
                          previous_frame_end)
                /\ UNCHANGED panic
           [] AcquireArm(r.kind) = "panic" ->
                /\ Panic("Failed to acquire next image")
                /\ calls' = [calls EXCEPT ![ThisCall].acquire = r.kind]
                /\ UNCHANGED <<pc, image_index, command_buffer, previous, future>>
    /\ UNCHANGED <<envVars, stage, physical_device, queue_family_index, device, queue,
                   image_format, rcx, previous_frame_end, next_id, submitted,
                   presented, exiting>>

\* the framebuffer of image 0, whatever was acquired
FramebufferForFirst(frame_buffers, index) == At(frame_buffers, 0)

\* rcx.frame_buffers[image_index as usize].clone()
FramebufferFor(frame_buffers, index) == At(frame_buffers, index)

\* 3) the framebuffer lookup, then the builder: primary(..).unwrap(),
\* begin_render_pass(..).unwrap(), end_render_pass().unwrap(), build().unwrap()
Record ==
    /\ panic = "none" /\ pc = "record"
    /\ IF ~InBounds(rcx.val.frame_buffers, image_index.val)
       THEN Panic("index out of bounds: frame_buffers")
            /\ UNCHANGED <<pc, command_buffer>>
       ELSE \E ok \in BOOLEAN :
              IF ok
              THEN /\ command_buffer' =
                        Some([framebuffer |-> FramebufferFor(rcx.val.frame_buffers,
                                                             image_index.val),
                              queue_family_index |-> queue.val.queue_family_index,
                              usage |-> "OneTimeSubmit",
                              clear_values |-> <<"bluish">>])
                   /\ pc' = "take"
                   /\ UNCHANGED panic
              ELSE Panic("called unwrap on Err: command buffer")
                   /\ UNCHANGED <<pc, command_buffer>>
    /\ UNCHANGED <<envVars, stage, physical_device, queue_family_index, device, queue,
                   image_format, rcx, previous_frame_end, next_id, image_index,
                   previous, future, calls, submitted, presented, exiting>>

\* a copy is handed out and the value stays where it was
OptionTakeClones(opt) == [taken |-> opt, left |-> opt]

\* Option::take: the value moves out and None is left behind
OptionTake(opt) == [taken |-> opt, left |-> None]

\* 4) let previous = inst.previous_frame_end.take().unwrap();
Take ==
    /\ panic = "none" /\ pc = "take"
    /\ LET t == OptionTake(previous_frame_end)
       IN  /\ previous_frame_end' = t.left
           /\ IF t.taken.some
              THEN previous' = t.taken /\ pc' = "submit" /\ UNCHANGED panic
              ELSE Panic("called unwrap on None: previous_frame_end")
                   /\ UNCHANGED <<previous, pc>>
    /\ UNCHANGED <<envVars, stage, physical_device, queue_family_index, device, queue,
                   image_format, rcx, next_id, image_index, command_buffer, future,
                   calls, submitted, presented, exiting>>

\* a present request that always names image 0
PresentInfoFirstImage(swapchain, index) ==
    [swapchain |-> swapchain.images, image_index |-> 0]

\* SwapchainPresentInfo::swapchain_image_index(swapchain, image_index)
PresentInfo(swapchain, index) == [swapchain |-> swapchain.images, image_index |-> index]

\* a chain started from nothing instead of from `previous`
ChainFutureWithoutJoin(prev, call, cb, info, id) ==
    [kind |-> "fence", id |-> id, call |-> call,
     waits |-> 0, acquire_of |-> call,
     command_buffer |-> cb, image_index |-> info.image_index]

\* previous.join(acquire_future).then_execute(queue, command_buffer)
\*     .then_swapchain_present(queue, present_info): the future of this frame,
\* which waits for `previous` and for the acquire of this call
ChainFuture(prev, call, cb, info, id) ==
    [kind |-> "fence", id |-> id, call |-> call,
     waits |-> prev.id, acquire_of |-> call,
     command_buffer |-> cb, image_index |-> info.image_index]

\* 4) the chain and .then_signal_fence_and_flush().  then_execute can fail
\* (unwrapped).  The flush hands the command buffer and then the present
\* request to the queue: "ok" both accepted, "ood" the present request is
\* refused as out of date, "err" the submission fails.
Submit ==
    /\ panic = "none" /\ pc = "submit"
    /\ \E outcome \in {"ok", "ood", "err", "execute_err"} :
         IF outcome = "execute_err"
         THEN Panic("called unwrap on Err: then_execute")
              /\ UNCHANGED <<pc, previous, future, calls, submitted, presented, next_id>>
         ELSE LET info == PresentInfo(rcx.val.swapchain, image_index.val)
                  fut  == ChainFuture(previous.val, ThisCall, command_buffer.val,
                                      info, next_id)
              IN  /\ previous' = None
                  /\ future' = Some(IF outcome = "ok"
                                    THEN [ok |-> TRUE, val |-> fut]
                                    ELSE [ok |-> FALSE, err |-> outcome])
                  /\ next_id' = IF outcome = "ok" THEN next_id + 1 ELSE next_id
                  /\ submitted' =
                        IF outcome \in {"ok", "ood"}
                        THEN Append(submitted,
                                    [call |-> fut.call,
                                     command_buffer |-> fut.command_buffer,
                                     waits |-> fut.waits])
                        ELSE submitted
                  /\ presented' =
                        IF outcome \in {"ok", "ood"}
                        THEN Append(presented,
                                    [call |-> fut.call,
                                     image_index |-> fut.image_index,
                                     after |-> Len(submitted'),
                                     result |-> outcome])
                        ELSE presented
                  /\ calls' = [calls EXCEPT ![ThisCall].joined = Some(fut.waits),
                                            ![ThisCall].flush = outcome]
                  /\ pc' = "store"
                  /\ UNCHANGED panic
    /\ UNCHANGED <<envVars, stage, physical_device, queue_family_index, device, queue,
                   image_format, rcx, previous_frame_end, image_index, command_buffer,
                   exiting>>

\* every flush error leaves nothing stored
StoredFutureDropsOnError(result, dev, id) ==
    IF result.ok THEN Some(result.val) ELSE None

\* only OutOfDate degrades to a no-op future
StoredFutureOnlyOutOfDate(result, dev, id) ==
    IF result.ok THEN Some(result.val)
    ELSE IF result.err = "ood" THEN Some(Now(dev, id))
    ELSE None

\* a no-op future is stored whatever the flush answered
StoredFutureAlwaysNow(result, dev, id) == Some(Now(dev, id))

\* match future { Ok(f) => f.boxed(), Err(OutOfDate) => now(device).boxed(),
\*                Err(e) => { eprintln!(..); now(device).boxed() } }
StoredFuture(result, dev, id) ==
    IF result.ok THEN Some(result.val)
    ELSE IF result.err = "ood" THEN Some(Now(dev, id))
    ELSE Some(Now(dev, id))

\* 5) inst.previous_frame_end = Some(match future {..}); render() returns
Store ==
    /\ panic = "none" /\ pc = "store"
    /\ previous_frame_end' = StoredFuture(future.val, device.val, next_id)
    /\ next_id' = IF future.val.ok THEN next_id ELSE next_id + 1
    /\ Return(calls[ThisCall], previous_frame_end')
    /\ UNCHANGED <<envVars, setupVars, submitted, presented, exiting>>

\* a close handler that also throws away the stored future
CloseRequestedDropsFuture ==
    /\ panic = "none" /\ stage = "ready" /\ ~exiting
    /\ pc = "idle"
    /\ exiting' = TRUE
    /\ previous_frame_end' = None
    /\ UNCHANGED <<envVars, setupVars, next_id, renderVars>>

\* App::window_event, CloseRequested: event_loop.exit()
CloseRequested ==
    /\ panic = "none" /\ stage = "ready" /\ ~exiting
    /\ pc = "idle"
    /\ exiting' = TRUE
    /\ UNCHANGED <<envVars, setupVars, previous_frame_end, next_id, renderVars>>

NextRender ==
    \/ RedrawRequested
    \/ Cleanup
    \/ Acquire
    \/ Record
    \/ Take
    \/ Submit
    \/ Store
    \/ CloseRequested

Next == NextSetup \/ NextRender

\* ------------------------------------------------------- specifications
\* the driver's answers during setup, per specification
AllPhys == SeqsOf(PhysicalDevices, 0, MaxDevices)
AllFormatLists == SeqsOf(Formats, 0, MaxFormats)
ImageHandles == 1..MaxImages
IsInjective(f) == \A i, j \in DOMAIN f : f[i] = f[j] => i = j
AllImageLists == { f \in SeqsOf(ImageHandles, 1, MaxImages) : IsInjective(f) }
InOrderImageLists == { [i \in 1..n |-> i] : n \in 1..MaxImages }

GoodFamily == [graphics |-> TRUE, surface_support |-> "Ok(true)"]
GoodDevice == [supported_extensions |-> {"khr_swapchain"},
               queue_family_properties |-> <<GoodFamily>>]
NoExtDevice == [supported_extensions |-> {},
                queue_family_properties |-> <<GoodFamily>>]
FewPhys == { <<NoExtDevice>>, <<NoExtDevice, GoodDevice>> }

\* the render loop, after a setup with a small choice of drivers
Init == InitWith(FewPhys, {<<"B8G8R8A8_SRGB">>}, InOrderImageLists)
Spec == Init /\ [][Next]_vars

\* device selection over every list of devices
InitSelect == InitWith(AllPhys, {<<"B8G8R8A8_SRGB">>}, {<<1>>})
SpecSelect == InitSelect /\ [][NextSetup]_vars

\* swapchain format and RenderContext over every format list and image list
InitContext == InitWith({<<GoodDevice>>}, AllFormatLists, AllImageLists)
SpecContext == InitContext /\ [][NextSetup]_vars


\* ------------------------------------------------------------- properties
CallIds == 1..Len(calls)
Images == rcx.val.swapchain.images
SubmittedBy(k) == { i \in 1..Len(submitted) : submitted[i].call = k }
PresentedBy(k) == { i \in 1..Len(presented) : presented[i].call = k }
FlushFailed(k) == calls[k].flush \in {"ood", "err"}

\* C1: after create and after every return of render(), whatever the acquire
\* and flush outcomes were, previous_frame_end holds one token (and no second
\* one is left in a local), so the take step of a later call never finds it
\* absent.
C1_SingleOwner ==
    /\ (stage = "ready" /\ pc = "idle") =>
          (previous_frame_end.some /\ ~previous.some /\ ~future.some)
    /\ \A k \in CallIds : calls[k].returned => calls[k].exit.some
    /\ \A k \in CallIds : calls[k].entry.some
    /\ pc = "take" => previous_frame_end.some
    /\ panic # "called unwrap on None: previous_frame_end"

\* render() has returned after an out-of-date acquire, a good flush, an
\* out-of-date flush and a failed flush, and a token is stored.
C1_Witness ==
    /\ stage = "ready" /\ pc = "idle" /\ previous_frame_end.some
    /\ \E a, b, c, d \in CallIds :
          /\ calls[a].acquire = "ood" /\ calls[b].flush = "ok"
          /\ calls[c].flush = "ood" /\ calls[d].flush = "err"
          /\ calls[a].returned /\ calls[b].returned
          /\ calls[c].returned /\ calls[d].returned

\* C2: a render() call whose acquire reports out of date has returned without
\* a panic, handed neither a command buffer nor a present request to the
\* queue, and left previous_frame_end holding the token it held at entry.
C2_AcquireOutOfDate ==
    \A k \in CallIds :
        calls[k].acquire = "ood" =>
            /\ calls[k].returned
            /\ calls[k].entry.some
            /\ calls[k].exit = calls[k].entry
            /\ calls[k].joined = None
            /\ calls[k].flush = "none"
            /\ SubmittedBy(k) = {} /\ PresentedBy(k) = {}
            /\ k = ThisCall => (pc = "idle" /\ panic = "none"
                                /\ previous_frame_end = calls[k].entry)

\* an out-of-date acquire met while the stored token was a frame's fence future
C2_Witness ==
    \E k \in CallIds :
        /\ calls[k].acquire = "ood" /\ calls[k].returned
        /\ calls[k].entry.some /\ calls[k].entry.val.kind = "fence"
        /\ previous_frame_end = calls[k].entry

\* C3: a render() call whose flush reports out of date or another error does
\* not panic: it goes on to the store step and returns, and what it stores is
\* a new no-op future of the device, not the token it took nor any earlier one.
C3_FlushFailureDegrades ==
    \A k \in CallIds :
        FlushFailed(k) =>
            /\ k = ThisCall => panic = "none"
            /\ ~calls[k].returned => (k = ThisCall /\ pc = "store" /\ ENABLED Store)
            /\ calls[k].returned =>
                  /\ calls[k].exit.some
                  /\ calls[k].exit.val.kind = "now"
                  /\ calls[k].exit.val.device = device.val
                  /\ calls[k].exit.val.id # calls[k].joined.val
                  /\ \A j \in 1..k : calls[j].entry.val.id # calls[k].exit.val.id
                  /\ k = ThisCall => previous_frame_end = calls[k].exit

\* both kinds of flush failure have been returned from, the later one last
C3_Witness ==
    /\ pc = "idle" /\ Len(calls) >= 2
    /\ calls[ThisCall].flush = "err" /\ calls[ThisCall].returned
    /\ calls[ThisCall - 1].flush = "ood"
    /\ previous_frame_end.val.kind = "now"

\* C4 as stated: no failure during a frame ends the process; panics happen
\* during setup only.
C4_NeverPanicsInRender == panic # "none" => stage # "ready"

\* C4 amended: render() panics in exactly three places: an acquire error other
\* than out of date, a failure while recording the command buffer, and a
\* failure of then_execute.  An out-of-date acquire and every flush outcome
\* are absorbed, and the unwraps on rcx, frame_buffers[image_index] and
\* previous_frame_end never fire.
C4_PanicsOnlyAtAcquireRecordExecute ==
    /\ (stage = "ready" /\ panic # "none") =>
          \/ /\ panic = "Failed to acquire next image"
             /\ pc = "acquire" /\ calls[ThisCall].acquire = "err"
          \/ /\ panic = "called unwrap on Err: command buffer"
             /\ pc = "record" /\ calls[ThisCall].acquire = "ok"
          \/ /\ panic = "called unwrap on Err: then_execute"
             /\ pc = "submit" /\ calls[ThisCall].flush = "none"
    /\ \A k \in CallIds :
          (calls[k].acquire = "ood" \/ calls[k].flush # "none") =>
              (k = ThisCall => panic = "none")

\* the process has ended inside render(), at the acquire of a later frame
C4_Witness ==
    /\ stage = "ready" /\ panic = "Failed to acquire next image"
    /\ Len(calls) >= 2 /\ calls[1].flush = "ok"

\* acquire answers ok, ok, out of date, ok and every flush succeeds
OutOfDateOnThirdOnly ==
    /\ Len(calls) >= 4
    /\ calls[1].acquire = "ok" /\ calls[1].flush = "ok"
    /\ calls[2].acquire = "ok" /\ calls[2].flush = "ok"
    /\ calls[3].acquire = "ood"
    /\ calls[4].acquire = "ok" /\ calls[4].flush = "ok"
    /\ calls[4].returned

\* C5: when acquire is out of date on the 3rd call only, calls 1, 2 and 4 each
\* hand one command buffer and one accepted present request to the queue, call
\* 3 hands over nothing, and call 4 joins the fence future call 2 stored.
C5_ThirdFrameDropped ==
    OutOfDateOnThirdOnly =>
        /\ \A k \in {1, 2, 4} :
              /\ Cardinality(SubmittedBy(k)) = 1
              /\ Cardinality(PresentedBy(k)) = 1
              /\ \A i \in PresentedBy(k) : presented[i].result = "ok"
        /\ SubmittedBy(3) = {} /\ PresentedBy(3) = {}
        /\ calls[2].exit.val.kind = "fence" /\ calls[2].exit.val.call = 2
        /\ calls[3].exit = calls[2].exit
        /\ calls[4].joined = Some(calls[2].exit.val.id)
        /\ \A i \in SubmittedBy(4) : submitted[i].waits = calls[2].exit.val.id
        /\ calls[4].exit.val.kind = "fence" /\ calls[4].exit.val.call = 4
        /\ calls[4].exit.val.waits = calls[2].exit.val.id

C5_Witness == OutOfDateOnThirdOnly /\ pc = "idle" /\ Len(presented) = 3

\* every acquire and every flush so far succeeded
StableSwapchain ==
    /\ panic = "none"
    /\ \A k \in CallIds :
          /\ calls[k].acquire \in {"ok", "pending"}
          /\ calls[k].flush \in {"ok", "none"}

\* C6 as stated: with a stable swapchain each cycle's image index is the
\* previous cycle's index plus one modulo the image count.
C6_IndexIncrementsModulo ==
    StableSwapchain =>
        \A i \in 2..Len(presented) :
            presented[i].image_index =
                (presented[i - 1].image_index + 1) % Len(Images)

\* C6 amended: with a stable swapchain, N returned render() calls have made
\* exactly N submit+present cycles, one per call and in call order, each
\* recorded against and presenting the image index that call's acquire
\* returned, which is below the image count.
C6_OneCyclePerCall ==
    (StableSwapchain /\ stage = "ready" /\ pc = "idle") =>
        /\ Len(submitted) = Len(calls)
        /\ Len(presented) = Len(calls)
        /\ \A k \in CallIds :
              /\ submitted[k].call = k
              /\ presented[k].call = k
              /\ presented[k].result = "ok"
              /\ presented[k].image_index = calls[k].index.val
              /\ calls[k].index.val \in 0..(Len(Images) - 1)
              /\ submitted[k].command_buffer.framebuffer.attachments =
                    <<[image |-> At(Images, calls[k].index.val)]>>

\* three cycles on two images, the last two on the same image
C6_Witness ==
    /\ StableSwapchain /\ stage = "ready" /\ pc = "idle"
    /\ Len(calls) >= 3 /\ Len(presented) = Len(calls)
    /\ Len(Images) = 2
    /\ presented[2].image_index = 1 /\ presented[3].image_index = 1

\* C7: command buffers and present requests reach the queue in the order of
\* the render() calls, a frame's present request after its own command buffer,
\* and every submission is joined on the token the previous render() call left
\* in previous_frame_end: the fence future of that frame when its flush
\* succeeded.
C7_FramesInOrder ==
    /\ \A i, j \in 1..Len(submitted) :
          i < j => submitted[i].call < submitted[j].call
    /\ \A i, j \in 1..Len(presented) :
          i < j => presented[i].call < presented[j].call
    /\ \A i \in 1..Len(presented) :
          /\ presented[i].after \in 1..Len(submitted)
          /\ submitted[presented[i].after].call = presented[i].call
    /\ \A k \in CallIds :
          /\ k > 1 => (calls[k - 1].returned /\ calls[k].entry = calls[k - 1].exit)
          /\ calls[k].joined.some => calls[k].joined.val = calls[k].entry.val.id
          /\ \A i \in SubmittedBy(k) : submitted[i].waits = calls[k].entry.val.id
          /\ (k > 1 /\ calls[k - 1].flush = "ok") =>
                (calls[k].entry.val.kind = "fence" /\ calls[k].entry.val.call = k - 1)

\* three frames presented one after the other, each chained on the one before
C7_Witness ==
    /\ Len(presented) >= 3
    /\ \A i \in 1..3 : presented[i].call = i /\ presented[i].result = "ok"
    /\ calls[3].joined = Some(calls[2].exit.val.id)
    /\ calls[2].joined = Some(calls[1].exit.val.id)

\* C8: the selected physical device supports the swapchain extension,
\* whatever queue families the devices without it offer.
C8_SelectedHasExtension ==
    physical_device.some =>
        /\ InBounds(phys, physical_device.val)
        /\ "khr_swapchain" \in At(phys, physical_device.val).supported_extensions

\* the first device could present from a graphics family but lacks the
\* extension, and the second device was selected
C8_Witness ==
    /\ physical_device = Some(1)
    /\ At(phys, 0).supported_extensions = {}
    /\ \E i \in 1..Len(At(phys, 0).queue_family_properties) :
          /\ At(phys, 0).queue_family_properties[i].graphics
          /\ At(phys, 0).queue_family_properties[i].surface_support = "Ok(true)"

\* some queue family of some enumerated device is graphics-capable and
\* reports that it can present to the surface
SomeQualifyingIndex ==
    \E d \in 1..Len(phys) : \E i \in 1..Len(phys[d].queue_family_properties) :
        /\ phys[d].queue_family_properties[i].graphics
        /\ phys[d].queue_family_properties[i].surface_support = "Ok(true)"

\* C9: the selected queue family of the selected device has the GRAPHICS flag
\* and reports support for the surface, and the queue is created from it; when
\* no device has such a family, setup gets no further than the device
\* selection, where it panics, and no device, queue, swapchain or sync token
\* has been created.
C9_QueueFamilyQualifies ==
    /\ queue_family_index.some =>
          LET fams == At(phys, physical_device.val).queue_family_properties
          IN  /\ InBounds(fams, queue_family_index.val)
              /\ At(fams, queue_family_index.val).graphics
              /\ At(fams, queue_family_index.val).surface_support = "Ok(true)"
    /\ queue.some => queue.val.queue_family_index = queue_family_index.val
    /\ ~SomeQualifyingIndex =>
          /\ stage \in {"start", "instance"}
          /\ physical_device = None /\ queue_family_index = None
          /\ device = None /\ queue = None /\ image_format = None
          /\ rcx = None /\ previous_frame_end = None
          /\ (stage = "instance" /\ panic # "none") =>
                panic = "No suitable physical device found"
          /\ (stage = "instance" /\ panic = "none") =>
                (ENABLED SelectPhysicalDevice /\ ~ENABLED CreateDevice)

\* the device was created on the second family of the second device, the
\* first family being graphics-capable with a failing surface query
C9_Witness ==
    /\ device.some /\ physical_device = Some(1) /\ queue_family_index = Some(1)
    /\ At(At(phys, 1).queue_family_properties, 0).graphics
    /\ At(At(phys, 1).queue_family_properties, 0).surface_support = "Err"

\* setup has panicked at the selection with devices enumerated
C9_WitnessFails ==
    /\ ~SomeQualifyingIndex /\ Len(phys) = 2
    /\ panic = "No suitable physical device found"

\* C10: the RenderContext has one image view and one framebuffer per
\* swapchain image, and the framebuffer at position i has as its one
\* attachment the view of the swapchain's image i.
C10_FramebufferPerImage ==
    rcx.some =>
        /\ rcx.val.swapchain.images = swap_images
        /\ Len(swap_images) >= 1
        /\ Len(rcx.val.image_views) = Len(swap_images)
        /\ Len(rcx.val.frame_buffers) = Len(swap_images)
        /\ \A i \in 1..Len(swap_images) :
              /\ rcx.val.image_views[i] = [image |-> swap_images[i]]
              /\ rcx.val.frame_buffers[i].attachments = <<[image |-> swap_images[i]]>>
              /\ rcx.val.frame_buffers[i].render_pass = rcx.val.render_pass

\* a context over two images the swapchain reports in the order 2, 1
C10_Witness ==
    /\ rcx.some /\ stage = "ready"
    /\ swap_images = <<2, 1>>
    /\ Len(rcx.val.frame_buffers) = 2

\* C11: from a non-empty list of surface formats the chosen image format is
\* B8G8R8A8_SRGB when the list holds it at any position and the first format
\* of the list otherwise (a format is chosen if and only if the list is not
\* empty), and the swapchain and the render pass carry the chosen format.
C11_FormatPreference ==
    /\ image_format.some =>
          /\ Len(surface_formats) >= 1
          /\ IF \E i \in 1..Len(surface_formats) : surface_formats[i] = "B8G8R8A8_SRGB"
             THEN image_format.val = "B8G8R8A8_SRGB"
             ELSE image_format.val = surface_formats[1]
    /\ (Len(surface_formats) >= 1 /\ stage = "device") => panic = "none"
    /\ panic = "index out of bounds: formats[0]" => Len(surface_formats) = 0
    /\ rcx.some =>
          /\ rcx.val.swapchain.image_format = image_format.val
          /\ rcx.val.render_pass.format = image_format.val
          /\ \A i \in 1..Len(rcx.val.frame_buffers) :
                rcx.val.frame_buffers[i].render_pass.format = image_format.val

\* the preferred format is reported second and the render pass is built on it
C11_Witness ==
    /\ surface_formats = <<"R8G8B8A8_UNORM", "B8G8R8A8_SRGB">>
    /\ rcx.some /\ rcx.val.render_pass.format = "B8G8R8A8_SRGB"

\* the preferred format is not reported: the first reported one is used
C11_WitnessFallback ==
    /\ surface_formats = <<"R8G8B8A8_UNORM", "B8G8R8A8_UNORM">>
    /\ rcx.some /\ rcx.val.render_pass.format = "R8G8B8A8_UNORM"

StepOrder ==
    { <<"idle", "cleanup">>, <<"cleanup", "acquire">>, <<"acquire", "record">>,
      <<"acquire", "idle">>, <<"record", "take">>, <<"take", "submit">>,
      <<"submit", "store">>, <<"store", "idle">> }

\* what was recorded, submitted and presented names the acquired image
FrameUsesAcquiredIndex ==
    /\ command_buffer.some =>
          /\ image_index.some
          /\ image_index = calls[ThisCall].index
          /\ command_buffer.val.framebuffer =
                rcx.val.frame_buffers[image_index.val + 1]
    /\ \A i \in 1..Len(submitted) :
          LET c == submitted[i].call
          IN  /\ calls[c].acquire = "ok" /\ calls[c].index.some
              /\ submitted[i].command_buffer.framebuffer =
                    rcx.val.frame_buffers[calls[c].index.val + 1]
              /\ submitted[i].command_buffer.framebuffer.attachments =
                    <<[image |-> rcx.val.swapchain.images[calls[c].index.val + 1]]>>
    /\ \A i \in 1..Len(presented) :
          LET c == presented[i].call
          IN  /\ calls[c].acquire = "ok" /\ calls[c].index.some
              /\ presented[i].image_index = calls[c].index.val
              /\ presented[i].after \in 1..Len(submitted)
              /\ submitted[presented[i].after].call = c

\* C13: the steps of a render() call follow one another in the order cleanup,
\* acquire, record, take and submit with present and flush, store; the queue
\* receives something only in the submit step and previous_frame_end changes
\* only in the take and store steps; the framebuffer recorded against and the
\* index of the present request are those of the index this call's acquire
\* returned, and every present request follows the command buffer of its own
\* call.
C13_StepsInOrder ==
    /\ []FrameUsesAcquiredIndex
    /\ [][ /\ pc' # pc => <<pc, pc'>> \in StepOrder
           /\ (submitted' # submitted \/ presented' # presented) =>
                 (pc = "submit" /\ pc' = "store")
           /\ (stage = "ready" /\ previous_frame_end' # previous_frame_end) =>
                 (<<pc, pc'>> \in {<<"take", "submit">>, <<"store", "idle">>})
           /\ (pc = "record" /\ pc' = "take") =>
                 (command_buffer'.some /\ image_index' = image_index) ]_vars

\* the second image was acquired, recorded against and presented
C13_Witness ==
    /\ Len(presented) >= 1 /\ Len(rcx.val.swapchain.images) = 2
    /\ calls[1].index = Some(1)
    /\ presented[1].image_index = 1
    /\ submitted[1].command_buffer.framebuffer.attachments = <<[image |-> 2]>>

\* the futures the host code holds: the stored one, the one moved into the
\* local `previous`, and the one a successful flush returned
LiveTokens ==
    (IF previous_frame_end.some THEN 1 ELSE 0)
    + (IF previous.some THEN 1 ELSE 0)
    + (IF future.some /\ future.val.ok THEN 1 ELSE 0)

\* C14: the take leaves nothing stored while the taken token is being chained
\* and until the store step; the host code never holds two tokens at once; no
\* two render() calls join the same token; the chain of a frame waits for the
\* taken token and for that frame's own acquire; and the token stored at the
\* end of a call that submitted is a new one.
C14_TokenConsumedOnce ==
    /\ pc \in {"submit", "store"} => previous_frame_end = None
    /\ pc = "submit" => (previous.some /\ previous = calls[ThisCall].entry)
    /\ LiveTokens <= 1
    /\ \A j, k \in CallIds :
          (j # k /\ calls[j].joined.some /\ calls[k].joined.some) =>
              calls[j].joined.val # calls[k].joined.val
    /\ \A i, j \in 1..Len(submitted) :
          i # j => submitted[i].waits # submitted[j].waits
    /\ future.some /\ future.val.ok =>
          /\ future.val.val.waits = calls[ThisCall].entry.val.id
          /\ future.val.val.acquire_of = ThisCall
          /\ future.val.val.id # calls[ThisCall].entry.val.id
    /\ \A k \in CallIds :
          (calls[k].returned /\ calls[k].joined.some) =>
              /\ calls[k].exit.some
              /\ calls[k].exit.val.id # calls[k].joined.val
              /\ \A j \in 1..k : calls[j].entry.val.id # calls[k].exit.val.id

\* a frame's fence future has been moved out of previous_frame_end and is
\* about to be joined into the next frame's chain
C14_Witness ==
    /\ pc = "submit" /\ previous_frame_end = None
    /\ previous.some /\ previous.val.kind = "fence"
    /\ Len(submitted) >= 1

\* family i (1-based) of device d is graphics-capable and reports that it can
\* present to the surface
FamilyQualifies(d, i) ==
    /\ d.queue_family_properties[i].graphics
    /\ d.queue_family_properties[i].surface_support = "Ok(true)"

\* device d has the swapchain extension and a qualifying family
DeviceQualifies(d) ==
    /\ "khr_swapchain" \in d.supported_extensions
    /\ \E i \in 1..Len(d.queue_family_properties) : FamilyQualifies(d, i)

\* C15: the selected device qualifies and no device enumerated before it
\* does; the selected queue family qualifies and no family of that device
\* with a lower index does; and the selection fails only when no device
\* qualifies.
C15_FirstMatch ==
    /\ physical_device.some =>
          /\ InBounds(phys, physical_device.val)
          /\ DeviceQualifies(At(phys, physical_device.val))
          /\ \A d \in 1..physical_device.val : ~DeviceQualifies(phys[d])
    /\ queue_family_index.some =>
          LET dev == At(phys, physical_device.val)
          IN  /\ InBounds(dev.queue_family_properties, queue_family_index.val)
              /\ FamilyQualifies(dev, queue_family_index.val + 1)
              /\ \A i \in 1..queue_family_index.val : ~FamilyQualifies(dev, i)
    /\ panic = "No suitable physical device found" =>
          \A d \in 1..Len(phys) : ~DeviceQualifies(phys[d])
    /\ panic # "No graphics+present queue family found"

\* two qualifying devices, the second family of each qualifying as well as a
\* later one could: the first device and its first qualifying family are taken
C15_Witness ==
    /\ Len(phys) = 2 /\ DeviceQualifies(phys[1]) /\ DeviceQualifies(phys[2])
    /\ physical_device = Some(0)
    /\ Len(phys[1].queue_family_properties) = 2
    /\ FamilyQualifies(phys[1], 1) /\ FamilyQualifies(phys[1], 2)
    /\ queue_family_index = Some(0)
    /\ device.some

\* the first device does not qualify and the first family of the second does
\* not either
C15_WitnessLater ==
    /\ Len(phys) = 2 /\ ~DeviceQualifies(phys[1])
    /\ physical_device = Some(1) /\ queue_family_index = Some(1)

\* C16: once create has returned the render context is there, built over the
\* swapchain's images, and it is there at the start of every render() call
\* (the expect on rcx never fires); no step of render(), whatever acquire and
\* flush answer, and no event handler changes the context, the device or the
\* queue afterwards.
C16_ContextFixedAfterCreate ==
    /\ [](stage = "ready" =>
             /\ rcx.some /\ device.some /\ queue.some
             /\ rcx.val.swapchain.images = swap_images
             /\ rcx.val.swapchain.device = device.val
             /\ Len(rcx.val.image_views) = Len(swap_images)
             /\ Len(rcx.val.frame_buffers) = Len(swap_images))
    /\ [](panic # "RenderContext not initialized")
    /\ [](stage # "ready" => (rcx = None /\ calls = <<>> /\ pc = "idle"))
    /\ [][stage = "ready" => UNCHANGED <<stage, rcx, device, queue, physical_device,
                                         queue_family_index, image_format>>]_vars

\* render() has run through an out-of-date acquire, an out-of-date flush and a
\* failed flush, and has begun once more
C16_Witness ==
    /\ stage = "ready" /\ rcx.some /\ pc = "cleanup" /\ Len(calls) = 4
    /\ calls[1].acquire = "ood" /\ calls[2].flush = "ood" /\ calls[3].flush = "err"

\* acquire has answered out of date in call k and in every call since
OutOfDateSince(k) == \A j \in k..Len(calls) : calls[j].acquire = "ood"

\* C17: when acquire has reported out of date in every render() call from
\* call k on, each of those calls has returned without a panic, none of them
\* handed a command buffer or a present request to the queue, the stored
\* future is still the one call k found, and the render context is the one
\* create built: render() rebuilds nothing.
C17_NoRecovery ==
    \A k \in CallIds :
        OutOfDateSince(k) =>
            /\ panic = "none" /\ pc = "idle"
            /\ \A j \in k..Len(calls) :
                  /\ calls[j].returned
                  /\ SubmittedBy(j) = {} /\ PresentedBy(j) = {}
                  /\ calls[j].exit = calls[k].entry
            /\ \A i \in 1..Len(presented) : presented[i].call < k
            /\ \A i \in 1..Len(submitted) : submitted[i].call < k
            /\ previous_frame_end = calls[k].entry
            /\ rcx.some /\ rcx.val.swapchain.images = swap_images

\* one frame was presented, then acquire was out of date three times over
C17_Witness ==
    /\ Len(calls) = 4 /\ calls[1].flush = "ok"
    /\ OutOfDateSince(2) /\ pc = "idle"
    /\ Len(presented) = 1

\* how far into render() a position is
StepRank(p) ==
    CASE p = "idle" -> 0 [] p = "cleanup" -> 1 [] p = "acquire" -> 2
      [] p = "record" -> 3 [] p = "take" -> 4 [] p = "submit" -> 5
      [] p = "store" -> 6

AcquireReturned(k) == calls[k].acquire \in {"ok", "ood"}

\* C18 as stated: a render() call whose acquire returned an image or out of
\* date has returned, or is still on its way to returning.
C18_AlwaysReturns ==
    \A k \in CallIds :
        AcquireReturned(k) =>
            \/ calls[k].returned
            \/ /\ k = ThisCall /\ panic = "none"
               /\ pc \in {"record", "take", "submit", "store"}

\* C18 amended: a render() call whose acquire returned an image or out of
\* date has returned, or can take its next step, or has panicked while
\* recording the command buffer or at then_execute; every step moves one
\* position forward or returns, so at most four steps follow the acquire; and
\* between calls the acquired index, the command buffer, the taken token and
\* the flush result are gone: only previous_frame_end is kept.
C18_ReturnsOrPanicsInBoundedSteps ==
    /\ [](\A k \in CallIds :
            AcquireReturned(k) =>
                \/ calls[k].returned
                \/ /\ k = ThisCall
                   /\ pc \in {"record", "take", "submit", "store"}
                   /\ panic = "none" => ENABLED (Record \/ Take \/ Submit \/ Store)
                   /\ panic # "none" =>
                         \/ panic = "called unwrap on Err: command buffer" /\ pc = "record"
                         \/ panic = "called unwrap on Err: then_execute" /\ pc = "submit")
    /\ [](pc = "idle" =>
            /\ image_index = None /\ command_buffer = None
            /\ previous = None /\ future = None
            /\ \A k \in CallIds : calls[k].returned)
    /\ [][ /\ pc' # pc =>
                (pc' = "idle" \/ StepRank(pc') = StepRank(pc) + 1)
           /\ (pc # "idle" /\ pc' = pc) => (panic = "none" /\ panic' # "none") ]_vars

\* a call that acquired an image and met an out-of-date flush has returned,
\* after one that was dropped at acquire
C18_Witness ==
    /\ pc = "idle" /\ Len(calls) >= 2
    /\ calls[ThisCall].acquire = "ok" /\ calls[ThisCall].flush = "ood"
    /\ calls[ThisCall].returned
    /\ calls[ThisCall - 1].acquire = "ood"
    /\ image_index = None /\ command_buffer = None

\* C19: in every state after create the framebuffer sequence is as long as the
\* swapchain's image sequence, so every index acquire has returned (each below
\* the image count) is a position of the framebuffer sequence, the lookup in
\* the record step never panics, and a call past the record step holds the
\* framebuffer of its index.
C19_FramebufferLookupInBounds ==
    /\ rcx.some => Len(rcx.val.frame_buffers) = Len(rcx.val.swapchain.images)
    /\ \A k \in CallIds :
          calls[k].index.some =>
              /\ calls[k].index.val < Len(rcx.val.swapchain.images)
              /\ calls[k].index.val >= 0
              /\ calls[k].index.val < Len(rcx.val.frame_buffers)
    /\ image_index.some =>
          (image_index.val >= 0 /\ image_index.val < Len(rcx.val.frame_buffers))
    /\ panic # "index out of bounds: frame_buffers"
    /\ (pc \in {"take", "submit", "store"}) =>
          /\ command_buffer.some
          /\ command_buffer.val.framebuffer \in
                { rcx.val.frame_buffers[i] : i \in 1..Len(rcx.val.frame_buffers) }

\* the last image of the swapchain was acquired in a later call and its
\* framebuffer was found
C19_Witness ==
    /\ pc = "take" /\ Len(calls) >= 3
    /\ Len(rcx.val.swapchain.images) = MaxImages
    /\ image_index = Some(MaxImages - 1)
    /\ command_buffer.some

====
